---- MODULE Spec2Model ----
(***************************************************************************)
(* Model of helpers/plex.py: the connection helper get_plex_server, the    *)
(* remote listing get_plex_users and the reconciliation sync_plex_users    *)
(* between the Plex account directory and the local user store.            *)
(***************************************************************************)
EXTENDS Integers, Sequences, FiniteSets, TLC

\* ------------------------------------------------------------------ bounds
MaxRemote == 2      \* longest remote account list
MaxLocal  == 2      \* most records in the initial local store
MaxRuns   == 2      \* sync runs per caller
MaxUrlLen == 2      \* longest address string

Procs == {1, 2}

VARIABLES
    remote,          \* what plex.myPlexAccount().users() answers right now
    store,           \* the local user table: a set of rows
    nextPk,          \* next primary key the table hands out
    pc,              \* per caller: position inside sync_plex_users
    plex_users,      \* per caller: local variable plex_users
    database_users,  \* per caller: local variable database_users (a snapshot)
    idx,             \* per caller: position of the running for loop
    err,             \* per caller: exception that ended the run, "" if none
    runs,            \* per caller: runs started
    log,             \* per caller: history of the steps of the current run
    store0,          \* per caller: history, the store when the run started
    prev,            \* per caller: history, how the previous run ended (ops is
                     \* meaningful when done: its creates plus deletes)
    arg_url,         \* get_plex_server: argument server_url
    arg_key,         \* get_plex_server: argument server_api_key
    settings,        \* get_plex_server: what get_settings returns
    server_url,      \* get_plex_server: local server_url
    server_api_key,  \* get_plex_server: local server_api_key
    s_pc,            \* get_plex_server: position
    s_err,           \* get_plex_server: exception raised, "" if none
    s_log,           \* get_plex_server: history of its external calls
    resolved_url     \* get_plex_server: history, server_url after lines 22-25

syncVars == <<remote, store, nextPk, pc, plex_users, database_users, idx, err,
              runs, log, store0, prev>>
serverVars == <<arg_url, arg_key, settings, server_url, server_api_key, s_pc,
                s_err, s_log, resolved_url>>
vars == <<remote, store, nextPk, pc, plex_users, database_users, idx, err,
          runs, log, store0, prev, arg_url, arg_key, settings, server_url,
          server_api_key, s_pc, s_err, s_log, resolved_url>>

\* ------------------------------------------------------------ identifiers
\* A Python value used as identifier: an int or a str.
IntId(n) == [t |-> "int", n |-> n, s |-> ""]
StrId(s) == [t |-> "str", n |-> 0, s |-> s]

Digits == <<"0", "1", "2", "3", "4", "5", "6", "7", "8", "9">>

RECURSIVE IntToStr(_)
IntToStr(n) == IF n < 10 THEN Digits[n + 1]
               ELSE IntToStr(n \div 10) \o Digits[(n % 10) + 1]

\* str(x): the decimal numeral of an int, a str unchanged.
str(x) == IF x.t = "int" THEN IntToStr(x.n) ELSE x.s

\* The remote accounts the model draws from: id 1 as a number, id "1" as a
\* string (the same identifier after stringification), and id 12.
Accounts ==
    { [id |-> IntId(1),  username |-> "a", email |-> "a@x"],
      [id |-> StrId("1"), username |-> "b", email |-> "b@x"],
      [id |-> IntId(12), username |-> "c", email |-> "c@x"] }

\* The records the initial local store draws from: one linked to id 1, one
\* whose token matches no remote account.
LocalSeeds ==
    { [username |-> "a", token |-> StrId("1"), email |-> "a@x"],
      [username |-> "z", token |-> StrId("9"), email |-> "z@x"] }

SeqsUpTo(S, n) == UNION { [1..k -> S] : k \in 0..n }

\* Answers of the remote listing: a list, something that is no list, or an
\* exception out of the connection or the remote call.
RemoteAnswers ==
    { [kind |-> "list", users |-> us] : us \in SeqsUpTo(Accounts, MaxRemote) }
    \cup { [kind |-> "nonlist", users |-> <<>>],
           [kind |-> "raise", users |-> <<>>] }

\* ------------------------------------------------------------ local store
Row(pk, username, token, email) ==
    [pk |-> pk, username |-> username, token |-> token, email |-> email]

RECURSIVE SortedRows(_)
SortedRows(rows) ==
    IF rows = {} THEN <<>>
    ELSE LET r == CHOOSE x \in rows : \A y \in rows : x.pk <= y.pk
         IN  <<r>> \o SortedRows(rows \ {r})

\* get_users(as_dict=False): every row of the table, as model instances.
get_users(table) == SortedRows(table)

\* create_user(username=, token=, email=): one new row under a fresh key.
create_user(table, pk, username, token, email) ==
    table \cup {Row(pk, username, token, email)}

\* database_user.delete_instance(): DELETE ... WHERE id = pk.
delete_instance(table, row) == {r \in table : r.pk # row.pk}

Range(f) == {f[k] : k \in DOMAIN f}

\* ------------------------------------------------------- sync_plex_users
Ev(op, pk, k) == [op |-> op, pk |-> pk, k |-> k]

\* Line 166 with the wrong field of the local record compared.
NotInDatabaseByUsername(plex_user, db_users) ==
    str(plex_user.id) \notin {db_users[k].username : k \in DOMAIN db_users}

\* Line 166 without the two str() calls.
NotInDatabaseRaw(plex_user, db_users) ==
    plex_user.id \notin {db_users[k].token : k \in DOMAIN db_users}

\* Line 166: str(plex_user.id) not in [str(u.token) for u in database_users]
NotInDatabase(plex_user, db_users) ==
    str(plex_user.id) \notin {str(db_users[k].token) : k \in DOMAIN db_users}

\* Line 173 without the two str() calls.
NotInPlexRaw(database_user, p_users) ==
    database_user.token \notin {p_users[k].id : k \in DOMAIN p_users}

\* Line 173: str(database_user.token) not in [str(u.id) for u in plex_users]
NotInPlex(database_user, p_users) ==
    str(database_user.token) \notin {str(p_users[k].id) : k \in DOMAIN p_users}

Resting(p) == pc[p] \in {"idle", "done", "failed"}

\* The state before a caller enters sync_plex_users; runs_before counts the
\* runs each caller is taken to have behind it.
SyncInit(runs_before) ==
    /\ remote \in RemoteAnswers
    /\ \E seed \in SeqsUpTo(LocalSeeds, MaxLocal) :
          /\ store = { Row(k, seed[k].username, seed[k].token, seed[k].email)
                       : k \in DOMAIN seed }
          /\ nextPk = Len(seed) + 1
          /\ store0 = [p \in Procs |-> store]
    /\ pc = [p \in Procs |-> "idle"]
    /\ plex_users = [p \in Procs |-> <<>>]
    /\ database_users = [p \in Procs |-> <<>>]
    /\ idx = [p \in Procs |-> 0]
    /\ err = [p \in Procs |-> ""]
    /\ runs = [p \in Procs |-> runs_before]
    /\ log = [p \in Procs |-> <<>>]
    /\ prev = [p \in Procs |-> [done |-> FALSE, users |-> <<>>, ops |-> 0]]

\* get_plex_users without the isinstance check of lines 83-84.
get_plex_users_unchecked(answer) ==
    IF answer.kind = "raise" THEN [raised |-> "RemoteError", value |-> <<>>]
    ELSE [raised |-> "", value |-> answer.users]

\* Lines 80-87 of get_plex_users: the response is returned when it is a list,
\* TypeError otherwise; an exception of the connection or the remote call
\* leaves get_plex_users as it is.
get_plex_users(answer) ==
    IF answer.kind = "raise" THEN [raised |-> "RemoteError", value |-> <<>>]
    ELSE IF answer.kind # "list" THEN [raised |-> "TypeError", value |-> <<>>]
    ELSE [raised |-> "", value |-> answer.users]

\* Line 159: plex_users = get_plex_users(...), the first step of a run.
GetPlexUsers(p) ==
    /\ Resting(p)
    /\ runs[p] < MaxRuns
    /\ LET r == get_plex_users(remote) IN
         /\ pc' = [pc EXCEPT ![p] = IF r.raised = "" THEN "get_users" ELSE "failed"]
         /\ err' = [err EXCEPT ![p] = r.raised]
         /\ plex_users' = [plex_users EXCEPT ![p] = r.value]
         /\ log' = [log EXCEPT ![p] = IF r.raised = "" THEN <<Ev("fetch_remote", 0, 0)>>
                                      ELSE <<>>]
    /\ database_users' = [database_users EXCEPT ![p] = <<>>]
    /\ idx' = [idx EXCEPT ![p] = 0]
    /\ runs' = [runs EXCEPT ![p] = @ + 1]
    /\ store0' = [store0 EXCEPT ![p] = store]
    /\ prev' = [prev EXCEPT ![p] = [done |-> pc[p] = "done",
                                    users |-> plex_users[p],
                                    ops |-> IF pc[p] = "done" THEN Len(log[p]) - 2
                                            ELSE 0]]
    /\ UNCHANGED <<remote, store, nextPk>>
    /\ UNCHANGED serverVars

\* Line 162: database_users = get_users(as_dict=False)
GetUsers(p) ==
    /\ pc[p] = "get_users"
    /\ database_users' = [database_users EXCEPT ![p] = get_users(store)]
    /\ pc' = [pc EXCEPT ![p] = "create"]
    /\ idx' = [idx EXCEPT ![p] = 1]
    /\ log' = [log EXCEPT ![p] = Append(@, Ev("fetch_local", 0, 0))]
    /\ UNCHANGED <<remote, store, nextPk, plex_users, err, runs, store0, prev>>
    /\ UNCHANGED serverVars

\* Lines 165-168 with a look at the table itself before create_user.
CreateStepGuarded(p) ==
    /\ pc[p] = "create"
    /\ idx[p] <= Len(plex_users[p])
    /\ LET plex_user == plex_users[p][idx[p]] IN
         IF /\ NotInDatabase(plex_user, database_users[p])
            /\ NotInDatabase(plex_user, get_users(store))
         THEN /\ store' = create_user(store, nextPk, plex_user.username,
                                      plex_user.id, plex_user.email)
              /\ nextPk' = nextPk + 1
              /\ log' = [log EXCEPT ![p] = Append(@, Ev("create", nextPk, idx[p]))]
         ELSE UNCHANGED <<store, nextPk, log>>
    /\ idx' = [idx EXCEPT ![p] = @ + 1]
    /\ UNCHANGED <<remote, pc, plex_users, database_users, err, runs, store0, prev>>
    /\ UNCHANGED serverVars

\* Lines 165-168, one iteration of the first loop.
CreateStep(p) ==
    /\ pc[p] = "create"
    /\ idx[p] <= Len(plex_users[p])
    /\ LET plex_user == plex_users[p][idx[p]] IN
         IF NotInDatabase(plex_user, database_users[p])
         THEN /\ store' = create_user(store, nextPk, plex_user.username,
                                      plex_user.id, plex_user.email)
              /\ nextPk' = nextPk + 1
              /\ log' = [log EXCEPT ![p] = Append(@, Ev("create", nextPk, idx[p]))]
         ELSE UNCHANGED <<store, nextPk, log>>
    /\ idx' = [idx EXCEPT ![p] = @ + 1]
    /\ UNCHANGED <<remote, pc, plex_users, database_users, err, runs, store0, prev>>
    /\ UNCHANGED serverVars

\* Line 167 raising inside a transaction that is rolled back.
CreateRaisesRollback(p) ==
    /\ pc[p] = "create"
    /\ idx[p] <= Len(plex_users[p])
    /\ NotInDatabase(plex_users[p][idx[p]], database_users[p])
    /\ pc' = [pc EXCEPT ![p] = "failed"]
    /\ err' = [err EXCEPT ![p] = "CreateError"]
    /\ store' = store0[p]
    /\ UNCHANGED <<remote, nextPk, plex_users, database_users, idx, runs,
                   log, store0, prev>>
    /\ UNCHANGED serverVars

\* Line 167 raises: create_user fails, the exception leaves sync_plex_users.
CreateRaises(p) ==
    /\ pc[p] = "create"
    /\ idx[p] <= Len(plex_users[p])
    /\ NotInDatabase(plex_users[p][idx[p]], database_users[p])
    /\ pc' = [pc EXCEPT ![p] = "failed"]
    /\ err' = [err EXCEPT ![p] = "CreateError"]
    /\ UNCHANGED <<remote, store, nextPk, plex_users, database_users, idx, runs,
                   log, store0, prev>>
    /\ UNCHANGED serverVars

\* The first loop left one account early.
CreateLoopEndEarly(p) ==
    /\ pc[p] = "create"
    /\ idx[p] >= Len(plex_users[p])
    /\ pc' = [pc EXCEPT ![p] = "delete"]
    /\ idx' = [idx EXCEPT ![p] = 1]
    /\ UNCHANGED <<remote, store, nextPk, plex_users, database_users, err, runs,
                   log, store0, prev>>
    /\ UNCHANGED serverVars

\* Line 165 exhausted: on to the second loop, line 172.
CreateLoopEnd(p) ==
    /\ pc[p] = "create"
    /\ idx[p] > Len(plex_users[p])
    /\ pc' = [pc EXCEPT ![p] = "delete"]
    /\ idx' = [idx EXCEPT ![p] = 1]
    /\ UNCHANGED <<remote, store, nextPk, plex_users, database_users, err, runs,
                   log, store0, prev>>
    /\ UNCHANGED serverVars

\* Lines 172-175, one iteration of the second loop.
DeleteStep(p) ==
    /\ pc[p] = "delete"
    /\ idx[p] <= Len(database_users[p])
    /\ LET database_user == database_users[p][idx[p]] IN
         IF NotInPlex(database_user, plex_users[p])
         THEN /\ store' = delete_instance(store, database_user)
              /\ log' = [log EXCEPT ![p] = Append(@, Ev("delete", database_user.pk, idx[p]))]
         ELSE UNCHANGED <<store, log>>
    /\ idx' = [idx EXCEPT ![p] = @ + 1]
    /\ UNCHANGED <<remote, nextPk, pc, plex_users, database_users, err, runs,
                   store0, prev>>
    /\ UNCHANGED serverVars

\* Line 174 raises: delete_instance fails, the exception leaves sync_plex_users.
DeleteRaises(p) ==
    /\ pc[p] = "delete"
    /\ idx[p] <= Len(database_users[p])
    /\ NotInPlex(database_users[p][idx[p]], plex_users[p])
    /\ pc' = [pc EXCEPT ![p] = "failed"]
    /\ err' = [err EXCEPT ![p] = "DeleteError"]
    /\ UNCHANGED <<remote, store, nextPk, plex_users, database_users, idx, runs,
                   log, store0, prev>>
    /\ UNCHANGED serverVars

\* Line 172 exhausted: sync_plex_users returns.
DeleteLoopEnd(p) ==
    /\ pc[p] = "delete"
    /\ idx[p] > Len(database_users[p])
    /\ pc' = [pc EXCEPT ![p] = "done"]
    /\ UNCHANGED <<remote, store, nextPk, plex_users, database_users, idx, err,
                   runs, log, store0, prev>>
    /\ UNCHANGED serverVars

\* Between two runs an account leaves the remote directory.
RemoteAccountLeaves ==
    /\ \A p \in Procs : Resting(p)
    /\ \E p \in Procs : 0 < runs[p] /\ runs[p] < MaxRuns
    /\ remote.kind = "list"
    /\ \E k \in DOMAIN remote.users :
          remote' = [remote EXCEPT !.users =
                        SubSeq(@, 1, k - 1) \o SubSeq(@, k + 1, Len(@))]
    /\ UNCHANGED <<store, nextPk, pc, plex_users, database_users, idx, err, runs,
                   log, store0, prev>>
    /\ UNCHANGED serverVars

SyncStep(p) ==
    \/ GetPlexUsers(p)
    \/ GetUsers(p)
    \/ CreateStep(p)
    \/ CreateRaises(p)
    \/ CreateLoopEnd(p)
    \/ DeleteStep(p)
    \/ DeleteRaises(p)
    \/ DeleteLoopEnd(p)

\* ------------------------------------------------------- get_plex_server
\* Optional[str]: None, or a string as the sequence of its characters.
None == [some |-> FALSE, s |-> <<>>]
Some(s) == [some |-> TRUE, s |-> s]

UrlChars == {"h", "/"}
KeyChars == {"k"}
OptUrls == {None} \cup {Some(s) : s \in SeqsUpTo(UrlChars, MaxUrlLen)}
OptKeys == {None} \cup {Some(s) : s \in SeqsUpTo(KeyChars, 1)}

\* Python truth of an Optional[str]: None and "" are false.
Truthy(x) == x.some /\ Len(x.s) > 0

\* a or b
Or(a, b) == IF Truthy(a) THEN a ELSE b

\* get_settings([...]): a mapping holding the keys the database has.
MkSettings(u, k) ==
    [x \in (IF u.some THEN {"server_url"} ELSE {})
           \cup (IF k.some THEN {"server_api_key"} ELSE {})
       |-> IF x = "server_url" THEN u ELSE k]

SettingsSet == {MkSettings(u, k) : u \in OptUrls, k \in OptKeys}

\* settings.get(key, None)
dict_get(d, key) == IF key \in DOMAIN d THEN d[key] ELSE None

\* server_url.endswith("/")
endswith_slash(s) == Len(s) > 0 /\ s[Len(s)] = "/"

\* Lines 28-29 without the endswith test of line 28.
normalize_url_always(s) == s \o <<"/">>

\* Lines 28-29: append "/" unless the address ends with one.
normalize_url(s) == IF ~endswith_slash(s) THEN s \o <<"/">> ELSE s

ServerOff ==
    /\ arg_url = None
    /\ arg_key = None
    /\ settings = MkSettings(None, None)
    /\ server_url = None
    /\ server_api_key = None
    /\ resolved_url = None
    /\ s_pc = "off"
    /\ s_err = ""
    /\ s_log = <<>>

\* A call get_plex_server(server_api_key, server_url) is entered.
ServerInit ==
    /\ arg_url \in OptUrls
    /\ arg_key \in OptKeys
    /\ settings \in SettingsSet
    /\ server_url = arg_url
    /\ server_api_key = arg_key
    /\ resolved_url = None
    /\ s_pc = "resolve"
    /\ s_err = ""
    /\ s_log = <<>>

Call(op, url, key) == [op |-> op, url |-> url, key |-> key]

\* Lines 22-25: fill what the arguments leave out from get_settings.
Resolve ==
    /\ s_pc = "resolve"
    /\ IF ~Truthy(server_api_key) \/ ~Truthy(server_url)
       THEN /\ server_url' = Or(server_url, dict_get(settings, "server_url"))
            /\ server_api_key' = Or(server_api_key, dict_get(settings, "server_api_key"))
            /\ s_log' = Append(s_log, Call("get_settings", None, None))
       ELSE UNCHANGED <<server_url, server_api_key, s_log>>
    /\ resolved_url' = server_url'
    /\ s_pc' = "normalize"
    /\ UNCHANGED <<arg_url, arg_key, settings, s_err>>
    /\ UNCHANGED syncVars

\* Lines 28-29: server_url.endswith("/") on None is an AttributeError.
Normalize ==
    /\ s_pc = "normalize"
    /\ IF ~server_url.some
       THEN /\ s_pc' = "failed"
            /\ s_err' = "AttributeError"
            /\ UNCHANGED server_url
       ELSE /\ server_url' = Some(normalize_url(server_url.s))
            /\ s_pc' = "connect"
            /\ UNCHANGED s_err
    /\ UNCHANGED <<arg_url, arg_key, settings, server_api_key, resolved_url, s_log>>
    /\ UNCHANGED syncVars

\* Line 32: PlexServer(server_url, server_api_key) opens the connection.
Connect ==
    /\ s_pc = "connect"
    /\ s_log' = Append(s_log, Call("PlexServer", server_url, server_api_key))
    /\ s_pc' = "returned"
    /\ UNCHANGED <<arg_url, arg_key, settings, server_url, server_api_key,
                   resolved_url, s_err>>
    /\ UNCHANGED syncVars

\* ------------------------------------------------------- specifications
SyncOff ==
    /\ remote = [kind |-> "list", users |-> <<>>]
    /\ store = {}
    /\ nextPk = 1
    /\ store0 = [p \in Procs |-> {}]
    /\ pc = [p \in Procs |-> "idle"]
    /\ plex_users = [p \in Procs |-> <<>>]
    /\ database_users = [p \in Procs |-> <<>>]
    /\ idx = [p \in Procs |-> 0]
    /\ err = [p \in Procs |-> ""]
    /\ runs = [p \in Procs |-> 0]
    /\ log = [p \in Procs |-> <<>>]
    /\ prev = [p \in Procs |-> [done |-> FALSE, users |-> <<>>, ops |-> 0]]

\* One caller runs sync_plex_users again and again.
Init == SyncInit(0) /\ ServerOff
Next == SyncStep(1) \/ RemoteAccountLeaves
Spec == Init /\ [][Next]_vars

\* Two callers run sync_plex_users at the same time, once each, against the
\* same remote account list.
ConcInit ==
    /\ SyncInit(MaxRuns - 1)
    /\ ServerOff
    /\ remote.kind = "list"
ConcNext ==
    \E p \in Procs :
        \/ GetPlexUsers(p)
        \/ GetUsers(p)
        \/ CreateStep(p)
        \/ CreateLoopEnd(p)
        \/ DeleteStep(p)
        \/ DeleteLoopEnd(p)
SpecConc == ConcInit /\ [][ConcNext]_vars

\* One call of get_plex_server.
ServerSpecInit == ServerInit /\ SyncOff
ServerNext == Resolve \/ Normalize \/ Connect
SpecServer == ServerSpecInit /\ [][ServerNext]_vars

\* ------------------------------------------------------------- properties
Tokens(table) == {str(r.token) : r \in table}
RemoteIds(us) == {str(us[k].id) : k \in DOMAIN us}
Events(p, op) == {k \in DOMAIN log[p] : log[p][k].op = op}
LastIsSlash(s) == Len(s) > 0 /\ s[Len(s)] = "/"

\* C1 (convergence): when a run of sync_plex_users has returned, the set of
\* stringified tokens in the local store equals the set of stringified ids of
\* the remote accounts the run fetched.
C1_Convergence ==
    pc[1] = "done" => Tokens(store) = RemoteIds(plex_users[1])

\* A run has returned after creating a record and deleting a record whose
\* token matched no remote id.
C1_Witness ==
    /\ pc[1] = "done"
    /\ Events(1, "create") # {}
    /\ \E r \in store0[1] : r \notin store /\ str(r.token) = "9"

\* C2 (idempotence): a run that follows a run which returned, with the same
\* remote account list, calls create_user zero times and deletes nothing.
C2_Idempotence ==
    (pc[1] \in {"get_users", "create", "delete", "done"}
        /\ prev[1].done /\ prev[1].users = plex_users[1])
    => (Events(1, "create") = {} /\ Events(1, "delete") = {} /\ store = store0[1])

\* The second of two runs over the same non-empty remote list has returned,
\* and the first one had created or deleted something.
C2_Witness ==
    /\ pc[1] = "done"
    /\ prev[1].done
    /\ prev[1].users = plex_users[1]
    /\ Len(plex_users[1]) > 0
    /\ prev[1].ops > 0

\* C3 (type-mismatch guard): when the remote listing answers something that
\* is no list, the run ends with TypeError, no create and no delete happened
\* and the local store is what it was before the call.
C3_TypeMismatch ==
    (remote.kind = "nonlist" /\ runs[1] > 0)
    => (pc[1] = "failed" /\ err[1] = "TypeError" /\ log[1] = <<>>
        /\ store = store0[1])

\* A run over a non-empty store has ended on a non-list answer.
C3_Witness ==
    /\ remote.kind = "nonlist"
    /\ pc[1] = "failed"
    /\ store # {}

\* C4 (linked records are left alone): when a run has returned, every record
\* of the store as it was before the run whose stringified token equals the
\* stringified id of a remote account is still there, unchanged, and no
\* record was created for that id; every other record of before is gone.
C4_LinkedKept ==
    pc[1] = "done" =>
        \A r \in store0[1] :
            IF str(r.token) \in RemoteIds(plex_users[1])
            THEN /\ r \in store
                 /\ \A k \in Events(1, "create") :
                        str(plex_users[1][log[1][k].k].id) # str(r.token)
            ELSE \A q \in store : q.pk # r.pk

\* A run has returned that met the string token "1" with the number 1 as
\* remote id and also a record matching no remote id.
C4_Witness ==
    /\ pc[1] = "done"
    /\ \E r \in store0[1] : r.token = StrId("1")
    /\ \E k \in DOMAIN plex_users[1] : plex_users[1][k].id = IntId(1)
    /\ \E r \in store0[1] : str(r.token) \notin RemoteIds(plex_users[1])

\* C5 (create correctness): when a run has returned, each remote id that was
\* absent from the tokens before the run has exactly one record, carrying the
\* username and email of the remote account with that id, and no record was
\* created for any other identifier.
C5_CreateCorrectness ==
    pc[1] = "done" =>
        /\ \A k \in DOMAIN plex_users[1] :
              LET u == plex_users[1][k]
                  mine == {r \in store : str(r.token) = str(u.id)}
              IN  str(u.id) \notin Tokens(store0[1]) =>
                     /\ Cardinality(mine) = 1
                     /\ \A r \in mine : r.username = u.username /\ r.email = u.email
        /\ \A r \in store \ store0[1] :
              str(r.token) \in RemoteIds(plex_users[1]) \ Tokens(store0[1])

\* C8 (ordering of a run): the steps of a run are one fetch of the remote
\* list, one fetch of the local list, creates, deletes, in this order; when
\* the first delete can happen every create is applied; deletes are decided
\* on the records fetched before the creates, so no record a run created is
\* deleted by it.
C8_Ordering ==
    LET l == log[1] IN
    /\ \A k \in DOMAIN l :
          /\ (l[k].op = "fetch_remote") <=> (k = 1)
          /\ (l[k].op = "fetch_local") <=> (k = 2)
          /\ \A j \in DOMAIN l : (l[k].op = "delete" /\ l[j].op = "create") => j < k
    /\ pc[1] \in {"delete", "done"} =>
          \A a \in DOMAIN plex_users[1] :
              NotInDatabase(plex_users[1][a], database_users[1]) =>
                  Cardinality({k \in Events(1, "create") : l[k].k = a}) = 1
    /\ pc[1] \in {"create", "delete", "done"} =>
          database_users[1] = get_users(store0[1])
    /\ \A k \in Events(1, "delete") :
          /\ \E r \in Range(database_users[1]) : r.pk = l[k].pk
          /\ \A j \in Events(1, "create") : l[j].pk # l[k].pk

\* A run has returned after at least one create and one delete.
C8_Witness ==
    /\ pc[1] = "done"
    /\ Events(1, "create") # {}
    /\ Events(1, "delete") # {}

\* C9 (no rollback), the state part: after create_user or delete_instance raised, the run has
\* ended with the exception, every record created before is in the store,
\* every record deleted before is gone, nothing else differs from the store
\* before the run, and the store is not touched again by this run; after a
\* failure in the create loop no record of before is deleted.
C9_State ==
    (pc[1] = "failed" /\ err[1] \in {"CreateError", "DeleteError"}) =>
        LET l == log[1]
            made == { Row(l[k].pk, plex_users[1][l[k].k].username,
                          plex_users[1][l[k].k].id, plex_users[1][l[k].k].email)
                      : k \in Events(1, "create") }
            gone == { l[k].pk : k \in Events(1, "delete") }
        IN  /\ store = {r \in store0[1] : r.pk \notin gone} \cup made
            /\ Cardinality(made) = Cardinality(Events(1, "create"))
            /\ err[1] = "CreateError" => (gone = {} /\ store0[1] \subseteq store)

\* C9 (no rollback), the whole of it: the state after the exception, always,
\* and no step of a failed run changing the store.
C9_NoRollback ==
    [](C9_State) /\ [][pc[1] = "failed" => store' = store]_vars

\* create_user raised after an earlier create of the same run, with a record
\* in the store that matches no remote id.
C9_Witness ==
    /\ pc[1] = "failed"
    /\ err[1] = "CreateError"
    /\ Events(1, "create") # {}
    /\ \E r \in store0[1] : NotInPlex(r, plex_users[1])

\* C10 (concurrent runs are not coordinated): with two callers inside
\* sync_plex_users at once, each caller creates a record of its own for every
\* account missing from the records it fetched, and calls delete on every
\* fetched record matching no remote id, whatever the other caller has done
\* to the store meanwhile.
C10_NoCoordination ==
    \A p \in Procs :
        /\ pc[p] \in {"create", "delete", "done"} =>
              \A a \in DOMAIN plex_users[p] :
                  (/\ NotInDatabase(plex_users[p][a], database_users[p])
                   /\ (pc[p] = "create" => a < idx[p]))
                  => \E k \in Events(p, "create") :
                        /\ log[p][k].k = a
                        /\ Row(log[p][k].pk, plex_users[p][a].username,
                               plex_users[p][a].id, plex_users[p][a].email) \in store
                        /\ \A q \in Procs \ {p} : \A j \in Events(q, "create") :
                              log[q][j].pk # log[p][k].pk
        /\ pc[p] \in {"delete", "done"} =>
              \A d \in DOMAIN database_users[p] :
                  (/\ NotInPlex(database_users[p][d], plex_users[p])
                   /\ (pc[p] = "delete" => d < idx[p]))
                  => \E k \in Events(p, "delete") :
                        log[p][k].pk = database_users[p][d].pk

\* Both callers have returned; each created a record for the same remote
\* account, so the store holds two records with that token, and each called
\* delete on the same local record.
C10_Witness ==
    /\ pc[1] = "done" /\ pc[2] = "done"
    /\ plex_users[1] = plex_users[2]
    /\ \E a \in DOMAIN plex_users[1] :
          /\ \E k \in Events(1, "create") : log[1][k].k = a
          /\ \E k \in Events(2, "create") : log[2][k].k = a
          /\ Cardinality({r \in store : str(r.token) = str(plex_users[1][a].id)}) >= 2
    /\ \E k \in Events(1, "delete") : \E j \in Events(2, "delete") :
          log[1][k].pk = log[2][j].pk

\* C6 (missing configuration is an error): when the address, or the
\* credential, comes neither as an argument nor from get_settings,
\* get_plex_server fails before it hands anything to PlexServer.
C6_MissingConfigFails ==
    LET url_missing == ~arg_url.some /\ "server_url" \notin DOMAIN settings
        key_missing == ~arg_key.some /\ "server_api_key" \notin DOMAIN settings
    IN  (url_missing \/ key_missing) =>
            /\ s_pc \in {"resolve", "normalize", "failed"}
            /\ \A k \in DOMAIN s_log : s_log[k].op # "PlexServer"

\* C7 (address normalization): the address get_plex_server works with after
\* lines 22-25 is the argument when one is given and the setting otherwise;
\* what PlexServer receives is that address plus one "/" when it did not end
\* with "/", and that address itself when it did; it always ends with "/" and
\* normalizing it again changes nothing.
C7_AddressNormalized ==
    /\ s_pc \in {"connect", "returned"} =>
          /\ resolved_url = (IF Truthy(arg_url) THEN arg_url
                             ELSE IF "server_url" \in DOMAIN settings
                                  THEN settings["server_url"] ELSE None)
          /\ resolved_url.some
          /\ server_url.some
          /\ LET u0 == resolved_url.s
                 u1 == server_url.s
             IN  /\ LastIsSlash(u0) => u1 = u0
                 /\ ~LastIsSlash(u0) => u1 = Append(u0, "/")
                 /\ LastIsSlash(u1)
                 /\ normalize_url(u1) = u1
    /\ \A k \in DOMAIN s_log :
          s_log[k].op = "PlexServer" =>
              /\ s_log[k].url = server_url
              /\ LastIsSlash(s_log[k].url.s)
    /\ s_pc = "returned" => \E k \in DOMAIN s_log : s_log[k].op = "PlexServer"

\* PlexServer was called with an address that came from the settings and
\* ended with "/" already.
C7_Witness ==
    /\ s_pc = "returned"
    /\ ~arg_url.some
    /\ LastIsSlash(resolved_url.s)
    /\ Len(resolved_url.s) > 1

====
